---------------------------- MODULE Spec2Model ----------------------------
(***************************************************************************)
(* Model of the Walton time-off workflow (src/app.py): the Flask handlers  *)
(* submit, decision and reset_sheet, the "Requests" worksheet they write,  *)
(* the e-mails they send, and the day-count functions they use.            *)
(*                                                                         *)
(* Encodings.                                                              *)
(*  - A text that the code reads character by character (start_date,      *)
(*    end_date, sd, ed, reason, the e-mail addresses) is the sequence of   *)
(*    the code points of its characters (ord), so that strptime and        *)
(*    str.strip are modelled by what they do to every character of a       *)
(*    Python str; Text("2024-03-01") writes such a text.  Other texts      *)
(*    (names, statuses, duration types) are only compared and are TLA+     *)
(*    strings.                                                             *)
(*  - A datetime.date is its proleptic Gregorian ordinal (date.toordinal). *)
(*  - A day count is a Python float with denominator 1 or 2; the model     *)
(*    stores twice its value: Float(3) = 6 is 3.0, HalfDay = 1 is 0.5.     *)
(***************************************************************************)
EXTENDS Integers, Sequences, FiniteSets, TLC

(***************************************************************************)
(* Texts as code points                                                    *)
(***************************************************************************)
\* The printable ASCII characters that the texts of the model are written
\* with, in runs of consecutive code points.
Printable ==
    << [base |-> 32, chars |-> " !"],
       [base |-> 35,
        chars |-> "#$%&'()*+,-./0123456789:;<=>?@ABCDEFGHIJKLMNOPQRSTUVWXYZ["],
       [base |-> 93, chars |-> "]^_"],
       [base |-> 97, chars |-> "abcdefghijklmnopqrstuvwxyz{|}~"] >>

\* ord(c) of a one-character string.
ord(c) ==
    LET k == CHOOSE k \in DOMAIN Printable :
                 \E i \in 1..Len(Printable[k].chars) :
                     SubSeq(Printable[k].chars, i, i) = c
        i == CHOOSE i \in 1..Len(Printable[k].chars) :
                 SubSeq(Printable[k].chars, i, i) = c
    IN  Printable[k].base + i - 1

\* The text s as the sequence of its code points.
Text(s) == [i \in 1..Len(s) |-> ord(SubSeq(s, i, i))]

Blank == ord(" ")
Dash == ord("-")
Zero == ord("0")

(***************************************************************************)
(* Bounds of the model.                                                    *)
(***************************************************************************)
\* A call that can add a request row starts only while the sheet holds fewer
\* request rows than this.
MaxRequests == 2

(***************************************************************************)
(* Dates: datetime.strptime(text, "%Y-%m-%d").date()                       *)
(***************************************************************************)
\* The digit zero of every script of Unicode 14.0.0: the decimal digits
\* (category Nd), which the \d of strptime's regex matches and int()
\* converts, come in runs of ten, zero to nine.
DigitZeros ==
    { 48, 1632, 1776, 1984, 2406, 2534, 2662, 2790, 2918, 3046, 3174, 3302,
      3430, 3558, 3664, 3792, 3872, 4160, 4240, 6112, 6160, 6470, 6608,
      6784, 6800, 6992, 7088, 7232, 7248, 42528, 43216, 43264, 43472,
      43504, 43600, 44016, 65296, 66720, 68912, 69734, 69872, 69942, 70096,
      70384, 70736, 70864, 71248, 71360, 71472, 71904, 72016, 72784, 73040,
      73120, 92768, 92864, 93008, 120782, 120792, 120802, 120812, 120822,
      123200, 123632, 125264, 130032 }

\* Every character that \d matches.
Digits == UNION { z .. z + 9 : z \in DigitZeros }

IsDigit(c) == c \in Digits

\* int() of one digit.
DigitVal(c) == c - (CHOOSE z \in DigitZeros : c \in z .. z + 9)

\* The characters 1 to 9 of a regex class [1-9], and [a-b] in general.
Class(a, b) == Zero + a .. Zero + b

\* The value strptime signals by raising ValueError.
ValueError == -1

\* int() of a text of digits (a leading blank, as %d allows, is skipped).
RECURSIVE IntOf(_, _)
IntOf(s, acc) ==
    IF s = <<>> THEN acc
    ELSE IF Head(s) = Blank THEN IntOf(Tail(s), acc)
    ELSE IntOf(Tail(s), 10 * acc + DigitVal(Head(s)))

\* %Y : \d\d\d\d
MatchesY(s) == Len(s) = 4 /\ \A i \in 1..4 : IsDigit(s[i])

\* %m : 1[0-2]|0[1-9]|[1-9]
MatchesM(s) ==
    \/ Len(s) = 2 /\ s[1] = Zero + 1 /\ s[2] \in Class(0, 2)
    \/ Len(s) = 2 /\ s[1] = Zero /\ s[2] \in Class(1, 9)
    \/ Len(s) = 1 /\ s[1] \in Class(1, 9)

\* %d : 3[01]|[12]\d|0[1-9]|[1-9]| [1-9]
MatchesD(s) ==
    \/ Len(s) = 2 /\ s[1] = Zero + 3 /\ s[2] \in Class(0, 1)
    \/ Len(s) = 2 /\ s[1] \in Class(1, 2) /\ IsDigit(s[2])
    \/ Len(s) = 2 /\ s[1] \in {Zero, Blank} /\ s[2] \in Class(1, 9)
    \/ Len(s) = 1 /\ s[1] \in Class(1, 9)

IsLeap(y) == y % 4 = 0 /\ (y % 100 # 0 \/ y % 400 = 0)

DaysInMonth(y, m) ==
    IF m = 2 THEN (IF IsLeap(y) THEN 29 ELSE 28)
    ELSE IF m \in {4, 6, 9, 11} THEN 30 ELSE 31

RECURSIVE DaysBeforeMonth(_, _)
DaysBeforeMonth(y, m) ==
    IF m = 1 THEN 0 ELSE DaysBeforeMonth(y, m - 1) + DaysInMonth(y, m - 1)

DaysBeforeYear(y) ==
    365 * (y - 1) + ((y - 1) \div 4) - ((y - 1) \div 100) + ((y - 1) \div 400)

\* date(y, m, d).toordinal(); ValueError when no such date exists.
Date(y, m, d) ==
    IF y >= 1 /\ m \in 1..12 /\ d >= 1 /\ d <= DaysInMonth(y, m)
    THEN DaysBeforeYear(y) + DaysBeforeMonth(y, m) + d
    ELSE ValueError

\* The positions of "-" in a text.
Dashes(s) == {i \in 1..Len(s) : s[i] = Dash}

\* strptime(s, "%Y-%m-%d").date(): the whole text must match
\* <year>-<month>-<day> and name an existing date.
strptime(s) ==
    IF Cardinality(Dashes(s)) # 2 THEN ValueError
    ELSE LET i == CHOOSE k \in Dashes(s) : \A j \in Dashes(s) : k <= j
             j == CHOOSE k \in Dashes(s) : \A l \in Dashes(s) : l <= k
             ys == SubSeq(s, 1, i - 1)
             ms == SubSeq(s, i + 1, j - 1)
             ds == SubSeq(s, j + 1, Len(s))
         IN  IF MatchesY(ys) /\ MatchesM(ms) /\ MatchesD(ds)
             THEN Date(IntOf(ys, 0), IntOf(ms, 0), IntOf(ds, 0))
             ELSE ValueError

\* date.weekday(): Monday is 0, Sunday is 6.
weekday(d) == (d + 6) % 7

(***************************************************************************)
(* Day counts                                                              *)
(***************************************************************************)
\* float(n), in the model's half-day units.
Float(n) == 2 * n

\* The literal 0.5.
HalfDay == 1

\* date.max, 9999-12-31: timedelta arithmetic beyond it raises.
date_max == Date(9999, 12, 31)

\* The value by which business_days signals that it raises OverflowError.
OverflowError == -3

\* The while loop of business_days: cur runs from start to end, and
\* cur += timedelta(days=1) (line 134) runs after every day counted, the
\* last one too: it raises when cur is date.max.
RECURSIVE CountLoop(_, _, _)
CountLoop(cur, end, days) ==
    IF cur <= end
    THEN IF cur = date_max THEN OverflowError
         ELSE CountLoop(cur + 1, end,
                        IF weekday(cur) < 5 THEN days + 1 ELSE days)
    ELSE days

business_days(start, end) ==
    IF end < start THEN Float(-1)
    ELSE LET days == CountLoop(start, end, 0)
         IN  IF days = OverflowError THEN OverflowError ELSE Float(days)

\* A variant of adjust_half_day that takes half a day off the count.
adjust_half_day_minus(days, duration_type) ==
    IF duration_type = "half" THEN days - HalfDay ELSE days

adjust_half_day(days, duration_type) ==
    IF duration_type = "half" THEN HalfDay ELSE days


(***************************************************************************)
(* Configuration (environment defaults) and texts                          *)
(***************************************************************************)
EMAIL_MARK == Text("mw@walton.fr")
EMAIL_NHAN == Text("nhan@walton.fr")
EMAIL_ANH == Text("anh@walton.fr")
ALWAYS_CC == Text("mw@walton.fr")

\* dict.get(key) that finds nothing, and a missing form field: both are
\* falsy, as the empty text is.
None == ""

\* None where a text of code points is expected.
NoText == <<>>

\* approver_email_map.get(approver, EMAIL_MARK)
approver_email_map(approver) ==
    CASE approver = "Mark" -> EMAIL_MARK
      [] approver = "Nhàn" -> EMAIL_NHAN
      [] approver = "Nhan" -> EMAIL_NHAN
      [] approver = "Anh" -> EMAIL_ANH
      [] OTHER -> EMAIL_MARK

\* str.capitalize() on the two statuses decision lets through.
capitalize(status) ==
    CASE status = "approved" -> "Approved"
      [] status = "rejected" -> "Rejected"
      [] OTHER -> status

\* The characters that str.isspace() holds of, which str.strip() removes:
\* tab to carriage return, the separators U+001C..U+001F, the blank, NEL,
\* the no-break space and the spaces of the general punctuation block.
Whitespace ==
    { 9, 10, 11, 12, 13, 28, 29, 30, 31, 32, 133, 160, 5760, 8192,
      8193, 8194, 8195, 8196, 8197, 8198, 8199, 8200, 8201, 8202,
      8232, 8233, 8239, 8287, 12288 }

\* str.strip() on a text.
RECURSIVE lstrip(_)
lstrip(s) ==
    IF s # <<>> /\ Head(s) \in Whitespace THEN lstrip(Tail(s)) ELSE s

RECURSIVE rstrip(_)
rstrip(s) ==
    IF s # <<>> /\ s[Len(s)] \in Whitespace
    THEN rstrip(SubSeq(s, 1, Len(s) - 1))
    ELSE s

strip(s) == rstrip(lstrip(s))

(***************************************************************************)
(* The staff directory ("Staff List" worksheet), read-only to the program  *)
(***************************************************************************)
\* ws.get_all_records() of the staff sheet.
StaffRecords ==
    << [Name |-> "Alice", Email |-> Text("alice@walton.fr"), Approver |-> "Nhan"],
       [Name |-> "Bob",   Email |-> Text("bob@walton.fr"),   Approver |-> "Zed"],
       [Name |-> "Carol", Email |-> Text("carol@walton.fr"), Approver |-> ""],
       [Name |-> "",      Email |-> Text("dan@walton.fr"),   Approver |-> "Anh"] >>

\* load_staff_list(): the rows that have a name and an e-mail.
load_staff_list ==
    SelectSeq(StaffRecords, LAMBDA row : row.Name # "" /\ row.Email # NoText)

\* {m["name"]: m[field] for m in staff_list}.get(name): the last entry of
\* that name wins, None when there is none.
RECURSIVE staff_get(_, _, _)
staff_get(staff_list, field, name) ==
    IF staff_list = <<>> THEN (IF field = "Email" THEN NoText ELSE None)
    ELSE LET m == staff_list[Len(staff_list)]
         IN  IF m.Name = name THEN m[field]
             ELSE staff_get(SubSeq(staff_list, 1, Len(staff_list) - 1), field, name)

(***************************************************************************)
(* The "Requests" worksheet                                                *)
(***************************************************************************)
\* A row of column titles: every cell is a text.  A request row is a record
\* with one field per column instead.
header ==
    [cells |-> << "Timestamp", "Name", "Email", "Approver", "Start", "End",
                  "Days", "Duration", "Type of leave", "Reason", "Status" >>]

IsRequestRow(row) == "Status" \in DOMAIN row

\* The number of request rows of the sheet.
NumRequests(sheet_rows) ==
    Cardinality({i \in DOMAIN sheet_rows : IsRequestRow(sheet_rows[i])})

\* sheet.append_row(row): the row becomes the last row of the sheet.
append_row(sheet_rows, row) == Append(sheet_rows, row)
\* A variant of update_cell that writes column 4 (Approver) instead of
\* column 11.
update_cell_column_4(sheet_rows, r, value) ==
    IF IsRequestRow(sheet_rows[r])
    THEN [sheet_rows EXCEPT ![r].Approver = value]
    ELSE [sheet_rows EXCEPT ![r].cells[4] = value]

\* sheet.update_cell(r, 11, value): column 11 is Status; r counts from 1.
update_cell(sheet_rows, r, value) ==
    IF IsRequestRow(sheet_rows[r])
    THEN [sheet_rows EXCEPT ![r].Status = value]
    ELSE [sheet_rows EXCEPT ![r].cells[11] = value]
\* A variant of IsPendingMatch that forgets the status.
IsAnyMatch(row, email, sd, ed) ==
    /\ IsRequestRow(row)
    /\ row.Email = email
    /\ row.Start = sd
    /\ row.End = ed

\* The condition of the scan in decision, on one row of get_all_values().
\* A row of titles never meets it: its 11th cell is not "Pending".
IsPendingMatch(row, email, sd, ed) ==
    /\ IsRequestRow(row)
    /\ row.Email = email
    /\ row.Start = sd
    /\ row.End = ed
    /\ row.Status = "Pending"

\* The scan of decision: for idx in range(len(rows) - 1, 0, -1), idx counting
\* from 0, stops at the first match with pending_row = idx + 1; 0 stands for
\* pending_row = None.
RECURSIVE scan(_, _, _, _, _)
scan(all_values, idx, email, sd, ed) ==
    IF idx <= 0 THEN 0
    ELSE IF IsPendingMatch(all_values[idx + 1], email, sd, ed) THEN idx + 1
    ELSE scan(all_values, idx - 1, email, sd, ed)
\* A variant of find_pending_row that keeps the oldest match, not the newest.
find_oldest_pending_row(all_values, email, sd, ed) ==
    IF \E i \in 2..Len(all_values) : IsPendingMatch(all_values[i], email, sd, ed)
    THEN CHOOSE i \in 2..Len(all_values) :
            /\ IsPendingMatch(all_values[i], email, sd, ed)
            /\ \A k \in 2..(i - 1) : ~IsPendingMatch(all_values[k], email, sd, ed)
    ELSE 0

find_pending_row(all_values, email, sd, ed) ==
    scan(all_values, Len(all_values) - 1, email, sd, ed)


(***************************************************************************)
(* Inputs                                                                  *)
(***************************************************************************)
D_Fri == Text("2024-03-01")
D_Sat == Text("2024-03-02")
D_Mon == Text("2024-3-4")
D_Feb30 == Text("2024-02-30")
D_Mon04 == Text("2024-03-04")
D_Max == Text("9999-12-31")
D_MaxEve == Text("9999-12-30")

\* (start, end) texts: two working days around a weekend, one Saturday,
\* end before start, a date that does not exist, a missing start.
DatePairs ==
    { <<D_Fri, D_Mon>>, <<D_Sat, D_Sat>>, <<D_Mon, D_Fri>>,
      <<D_Feb30, D_Fri>>, <<<<>>, D_Fri>> }

Form(n, d, dt, t) ==
    [employee_name |-> n, start_date |-> d[1], end_date |-> d[2],
     duration_type |-> dt, type_of_leave |-> t, reason |-> Text(" flu")]

\* request.form of POST /submit: every employee name with one request, and
\* every request of one employee.
Forms ==
    { Form(n, <<D_Fri, D_Mon>>, "full", "Vacation") :
        n \in {"Alice", "Bob", "Carol", "Eve", ""} }
    \cup
    { Form("Alice", d, dt, t) :
        d \in DatePairs, dt \in {"full", "half"}, t \in {"Vacation", ""} }
    \cup
    \* one day written in two ways, as a half day
    { Form("Alice", <<D_Mon, D_Mon04>>, "half", "Vacation") }
    \cup
    \* the last two days of date's range, as a half day and as full days
    { Form("Alice", <<D_MaxEve, D_Max>>, dt, "Vacation") : dt \in {"full", "half"} }

Arg(st, e, d, dt) ==
    [status |-> st, email |-> e, name |-> "Alice", sd |-> d[1], ed |-> d[2],
     reason |-> <<>>, dt |-> dt]

\* request.args of GET /decision.
Args ==
    { Arg(st, Text("alice@walton.fr"), d, dt) :
        st \in {"approved", "rejected", "pending"},
        d \in DatePairs \ {<< <<>>, D_Fri >>},
        dt \in {"full", "half"} }
    \cup
    { Arg(st, Text("bob@walton.fr"), <<D_Fri, D_Mon>>, "full") :
        st \in {"approved", "rejected", "pending"} }
    \cup
    \* a decision on the last two days of date's range
    { Arg("approved", Text("alice@walton.fr"), <<D_MaxEve, D_Max>>, "full") }

\* datetime.utcnow().isoformat(timespec="seconds"): the reading of the
\* clock is not told apart.
Instants == {"2024-02-01T09:00:00"}

(***************************************************************************)
(* State                                                                   *)
(***************************************************************************)
\* The request handlers that can be running at once.
Procs == {1, 2}

VARIABLES
    worksheet,  \* the workbook has a worksheet "Requests"
    rows,       \* its rows, first to last
    call        \* per handler thread: the call it runs, Idle when none

vars == <<worksheet, rows, call>>

Idle == [op |-> "idle"]

NoResponse == [code |-> 0, body |-> ""]

\* An exception that leaves the handler: Flask answers 500.
InternalServerError == [code |-> 500, body |-> "Internal Server Error"]

\* A call that has returned `response`.
Finish(c, response) == [c EXCEPT !.pc = "done", !.resp = response]

\* [str(a).strip() for a in lst if a] (lines 158-159): the empty addresses
\* are dropped, then each address left is stripped.
Addresses(lst) ==
    LET kept == SelectSeq(lst, LAMBDA a : a # NoText)
    IN  [i \in 1..Len(kept) |-> strip(kept[i])]

\* One send_email call: it raises when no recipient is left or when SMTP
\* fails (smtp_ok false); `sent` records which.
send_email(subject, to_list, cc_list, smtp_ok) ==
    LET to == Addresses(to_list)
        cc == Addresses(cc_list)
    IN  [subject |-> subject, to |-> to, cc |-> cc,
         sent |-> (to # <<>> /\ smtp_ok)]

Init ==
    /\ worksheet = FALSE
    /\ rows = <<>>
    /\ call = [p \in Procs |-> Idle]

(***************************************************************************)
(* submit                                                                  *)
(***************************************************************************)
\* The half-day rule: duration_type == "half" and d1 != d2.
HalfDayMismatch(duration_type, d1, d2) == duration_type = "half" /\ d1 # d2

\* Lines 197-238: what submit answers before it touches the sheet, or
\* NoResponse when the request is valid.  staff_ok: load_staff_list did not
\* raise.  business_days (line 230) is called outside any try, before the
\* tests of its result and of the half-day rule: when it raises, Flask
\* answers 500.
SubmitRejection(form, staff_ok) ==
    LET employee_email == staff_get(load_staff_list, "Email", form.employee_name)
        approver == staff_get(load_staff_list, "Approver", form.employee_name)
        d1 == strptime(form.start_date)
        d2 == strptime(form.end_date)
    IN  IF ~(form.employee_name # "" /\ form.start_date # <<>>
             /\ form.end_date # <<>> /\ form.type_of_leave # "")
        THEN [code |-> 400, body |-> "Missing fields"]
        ELSE IF ~staff_ok THEN InternalServerError
        ELSE IF employee_email = NoText
        THEN [code |-> 400, body |-> "Employee email not found"]
        ELSE IF approver = None
        THEN [code |-> 400, body |-> "Approver not configured for this employee"]
        ELSE IF d1 = ValueError \/ d2 = ValueError
        THEN [code |-> 400, body |-> "Invalid date format"]
        ELSE IF business_days(d1, d2) = OverflowError
        THEN InternalServerError
        ELSE IF business_days(d1, d2) = Float(-1)
        THEN [code |-> 400, body |-> "End date cannot be before start"]
        ELSE IF HalfDayMismatch(form.duration_type, d1, d2)
        THEN [code |-> 400, body |-> "Half day allowed only when start=end"]
        ELSE NoResponse
\* A variant of SubmitRow that logs the raw count, the half-day adjustment
\* forgotten.
SubmitRowRawDays(c, timestamp) ==
    [Timestamp |-> timestamp,
     Name      |-> c.form.employee_name,
     Email     |-> c.employee_email,
     Approver  |-> c.approver,
     Start     |-> c.form.start_date,
     End       |-> c.form.end_date,
     Days      |-> business_days(strptime(c.form.start_date),
                                 strptime(c.form.end_date)),
     Duration  |-> c.form.duration_type,
     Type      |-> c.form.type_of_leave,
     Reason    |-> c.reason,
     Status    |-> "Pending"]

\* The row submit appends (lines 244-256).
SubmitRow(c, timestamp) ==
    [Timestamp |-> timestamp,
     Name      |-> c.form.employee_name,
     Email     |-> c.employee_email,
     Approver  |-> c.approver,
     Start     |-> c.form.start_date,
     End       |-> c.form.end_date,
     Days      |-> c.days,
     Duration  |-> c.form.duration_type,
     Type      |-> c.form.type_of_leave,
     Reason    |-> c.reason,
     Status    |-> "Pending"]

Submit(p, form, staff_ok) ==
    /\ call[p] = Idle
    /\ NumRequests(rows) < MaxRequests
    /\ LET rejection == SubmitRejection(form, staff_ok)
           c == [op |-> "submit", pc |-> "open", resp |-> NoResponse,
                 pre |-> rows, mails |-> <<>>, raised |-> FALSE,
                 staff_ok |-> staff_ok, form |-> form]
       IN  call' = [call EXCEPT ![p] =
              IF rejection # NoResponse THEN Finish(c, rejection)
              ELSE [op |-> "submit", pc |-> "open", resp |-> NoResponse,
                    pre |-> rows, mails |-> <<>>, raised |-> FALSE,
                    staff_ok |-> staff_ok, form |-> form,
                    employee_email |->
                        staff_get(load_staff_list, "Email", form.employee_name),
                    approver |->
                        staff_get(load_staff_list, "Approver", form.employee_name),
                    reason |-> strip(form.reason),
                    days |-> adjust_half_day(
                                business_days(strptime(form.start_date),
                                              strptime(form.end_date)),
                                form.duration_type)]]
    /\ UNCHANGED <<worksheet, rows>>


\* An exception of a sheet operation in submit is not caught (lines 240-257).
SubmitRaise(c) == Finish([c EXCEPT !.raised = TRUE], InternalServerError)

\* In decision it is caught and printed (lines 375, 409-410): the handler
\* goes on to the e-mail.
DecisionRaise(c) == [c EXCEPT !.raised = TRUE, !.pc = "notify"]

\* In reset_sheet it is caught and answered with ok=False, 500 (487-489).
ResetRaise(c) ==
    Finish([c EXCEPT !.raised = TRUE], [code |-> 500, body |-> "ok=False"])

Raise(c) ==
    CASE c.op = "submit" -> SubmitRaise(c)
      [] c.op = "decision" -> DecisionRaise(c)
      [] c.op = "reset" -> ResetRaise(c)
\* A variant of AfterOpen in which submit goes to the approver e-mail
\* without saving the request first.
AfterOpenSkipAppend(c) ==
    CASE c.op = "submit" -> [c EXCEPT !.pc = "notify_approver"]
      [] c.op = "decision" -> [c EXCEPT !.pc = "scan"]
      [] c.op = "reset" -> [c EXCEPT !.pc = "clear"]

\* Where each handler goes once it holds the sheet.
AfterOpen(c) ==
    CASE c.op = "submit" -> [c EXCEPT !.pc = "append"]
      [] c.op = "decision" -> [c EXCEPT !.pc = "scan"]
      [] c.op = "reset" -> [c EXCEPT !.pc = "clear"]

\* wb.worksheet("Requests") (lines 68-70): the worksheet is there; or it is
\* not (WorksheetNotFound); or opening the workbook or the worksheet raises.
OpenWorksheet(p) ==
    /\ call[p] # Idle
    /\ call[p].pc = "open"
    /\ \/ /\ worksheet
          /\ call' = [call EXCEPT ![p] = AfterOpen(call[p])]
       \/ /\ ~worksheet
          /\ call' = [call EXCEPT ![p].pc = "add_worksheet"]
       \/ call' = [call EXCEPT ![p] = Raise(call[p])]
    /\ UNCHANGED <<worksheet, rows>>

\* wb.add_worksheet(title="Requests", ...) (line 72): the new worksheet is
\* empty.  It raises when the request fails, and always when another call
\* has added the worksheet in between: a workbook has one sheet of a title.
AddWorksheet(p) ==
    /\ call[p] # Idle
    /\ call[p].pc = "add_worksheet"
    /\ \/ /\ ~worksheet
          /\ worksheet' = TRUE
          /\ rows' = <<>>
          /\ call' = [call EXCEPT ![p].pc = "append_header"]
       \/ /\ call' = [call EXCEPT ![p] = Raise(call[p])]
          /\ UNCHANGED <<worksheet, rows>>

\* ws.append_row(header) (line 86), after the rows that other calls may
\* have appended to the new worksheet in between.
AppendHeader(p) ==
    /\ call[p] # Idle
    /\ call[p].pc = "append_header"
    /\ \/ /\ rows' = append_row(rows, header)
          /\ call' = [call EXCEPT ![p] = AfterOpen(call[p])]
       \/ /\ call' = [call EXCEPT ![p] = Raise(call[p])]
          /\ UNCHANGED rows
    /\ UNCHANGED worksheet

\* get_requests_sheet(): its three requests to the Sheets API, one step each.
GetRequestsSheet(p) ==
    \/ OpenWorksheet(p)
    \/ AddWorksheet(p)
    \/ AppendHeader(p)

\* sheet.append_row(row) of submit (lines 242-257); it may raise.
SubmitAppend(p) ==
    /\ call[p] # Idle
    /\ call[p].op = "submit"
    /\ call[p].pc = "append"
    /\ \/ \E timestamp \in Instants :
            /\ rows' = append_row(rows, SubmitRow(call[p], timestamp))
            /\ call' = [call EXCEPT ![p].pc = "notify_approver"]
       \/ /\ call' = [call EXCEPT ![p] = Raise(call[p])]
          /\ UNCHANGED rows
    /\ UNCHANGED worksheet

\* The page submit renders (lines 340-346).
SubmittedPage == [code |-> 200, body |-> "submitted.html"]

\* The e-mail to the approver (lines 259-314).
ApproverMail(c, smtp_ok) ==
    send_email("Walton Time Off - New request",
               <<approver_email_map(c.approver)>>, <<>>, smtp_ok)

\* The receipt to the employee (lines 316-334).
EmployeeMail(c, smtp_ok) ==
    send_email("Walton Time Off - Request received",
               <<c.employee_email>>, <<>>, smtp_ok)

\* A variant of SubmitNotifyApprover that goes on to the receipt whether or
\* not the approver e-mail was sent.
SubmitNotifyApproverThenReceipt(p) ==
    /\ call[p] # Idle
    /\ call[p].op = "submit"
    /\ call[p].pc = "notify_approver"
    /\ \E smtp_ok \in BOOLEAN :
         LET m == ApproverMail(call[p], smtp_ok)
             c == [call[p] EXCEPT !.mails = Append(@, m)]
         IN  call' = [call EXCEPT ![p] = [c EXCEPT !.pc = "notify_employee"]]
    /\ UNCHANGED <<worksheet, rows>>

\* Lines 291-314 and 336-346: when the approver e-mail raises, the except
\* clause prints and submit renders the page.
SubmitNotifyApprover(p) ==
    /\ call[p] # Idle
    /\ call[p].op = "submit"
    /\ call[p].pc = "notify_approver"
    /\ \E smtp_ok \in BOOLEAN :
         LET m == ApproverMail(call[p], smtp_ok)
             c == [call[p] EXCEPT !.mails = Append(@, m)]
         IN  call' = [call EXCEPT ![p] =
                IF m.sent THEN [c EXCEPT !.pc = "notify_employee"]
                ELSE Finish(c, SubmittedPage)]
    /\ UNCHANGED <<worksheet, rows>>

\* Lines 316-346.
SubmitNotifyEmployee(p) ==
    /\ call[p] # Idle
    /\ call[p].op = "submit"
    /\ call[p].pc = "notify_employee"
    /\ \E smtp_ok \in BOOLEAN :
         LET m == EmployeeMail(call[p], smtp_ok)
             c == [call[p] EXCEPT !.mails = Append(@, m)]
         IN  call' = [call EXCEPT ![p] = Finish(c, SubmittedPage)]
    /\ UNCHANGED <<worksheet, rows>>

(***************************************************************************)
(* decision                                                                *)
(***************************************************************************)
\* Lines 366-372: the day count recomputed from the link; 1.0 when a date
\* does not parse or business_days raises (except Exception).
DecisionDays(sd, ed, duration_type) ==
    LET d1 == strptime(sd)
        d2 == strptime(ed)
    IN  IF d1 = ValueError \/ d2 = ValueError THEN Float(1)
        ELSE IF business_days(d1, d2) = OverflowError THEN Float(1)
        ELSE adjust_half_day(business_days(d1, d2), duration_type)
\* A variant of DecisionRow that logs the fallback row as Pending.
DecisionRowPending(c, timestamp) ==
    [Timestamp |-> timestamp,
     Name      |-> c.args.name,
     Email     |-> c.args.email,
     Approver  |-> "Decision",
     Start     |-> c.args.sd,
     End       |-> c.args.ed,
     Days      |-> c.days,
     Duration  |-> c.args.dt,
     Type      |-> "",
     Reason    |-> c.args.reason,
     Status    |-> "Pending"]

\* The row decision appends when it found no pending row (lines 395-407).
DecisionRow(c, timestamp) ==
    [Timestamp |-> timestamp,
     Name      |-> c.args.name,
     Email     |-> c.args.email,
     Approver  |-> "Decision",
     Start     |-> c.args.sd,
     End       |-> c.args.ed,
     Days      |-> c.days,
     Duration  |-> c.args.dt,
     Type      |-> "",
     Reason    |-> c.args.reason,
     Status    |-> capitalize(c.args.status)]

\* Lines 355-372.
Decision(p, args) ==
    /\ call[p] = Idle
    /\ \/ NumRequests(rows) < MaxRequests
       \/ find_pending_row(rows, args.email, args.sd, args.ed) # 0
    /\ LET c == [op |-> "decision", pc |-> "open", resp |-> NoResponse,
                 pre |-> rows, mails |-> <<>>, raised |-> FALSE,
                 args |-> args, all_values |-> <<>>, pending_row |-> 0,
                 written |-> FALSE,
                 days |-> DecisionDays(args.sd, args.ed, args.dt)]
       IN  call' = [call EXCEPT ![p] =
              IF args.status \notin {"approved", "rejected"}
              THEN Finish(c, [code |-> 400, body |-> "Invalid status"])
              ELSE c]
    /\ UNCHANGED <<worksheet, rows>>

\* Lines 377-390: get_all_values() and the scan for the pending row.
DecisionScan(p) ==
    /\ call[p] # Idle
    /\ call[p].op = "decision"
    /\ call[p].pc = "scan"
    /\ \/ call' = [call EXCEPT
             ![p].all_values = rows,
             ![p].pending_row = find_pending_row(rows, call[p].args.email,
                                                 call[p].args.sd, call[p].args.ed),
             ![p].pc = "write"]
       \/ call' = [call EXCEPT ![p] = Raise(call[p])]
    /\ UNCHANGED <<worksheet, rows>>

\* Lines 392-407: update the status cell of the row found, or append.
DecisionWrite(p) ==
    /\ call[p] # Idle
    /\ call[p].op = "decision"
    /\ call[p].pc = "write"
    /\ \/ /\ call[p].pending_row # 0
          /\ rows' = update_cell(rows, call[p].pending_row,
                                 capitalize(call[p].args.status))
          /\ call' = [call EXCEPT ![p].pc = "notify", ![p].written = TRUE]
       \/ /\ call[p].pending_row = 0
          /\ \E timestamp \in Instants :
               rows' = append_row(rows, DecisionRow(call[p], timestamp))
          /\ call' = [call EXCEPT ![p].pc = "notify", ![p].written = TRUE]
       \/ /\ call' = [call EXCEPT ![p] = Raise(call[p])]
          /\ UNCHANGED rows
    /\ UNCHANGED worksheet

\* The page decision renders (lines 434-442).
DecisionPage == [code |-> 200, body |-> "decision_result.html"]
\* A variant of DecisionMail without the CC.
DecisionMailNoCc(c, smtp_ok) ==
    send_email(IF c.args.status = "approved"
               THEN "Walton Time Off - Request approved"
               ELSE "Walton Time Off - Request rejected",
               <<c.args.email>>, <<>>, smtp_ok)

\* The e-mail to the employee, CC to the admin (lines 425-430).
DecisionMail(c, smtp_ok) ==
    send_email(IF c.args.status = "approved"
               THEN "Walton Time Off - Request approved"
               ELSE "Walton Time Off - Request rejected",
               <<c.args.email>>, <<ALWAYS_CC>>, smtp_ok)

\* Lines 412-442: an exception of send_email is caught and printed.
DecisionNotify(p) ==
    /\ call[p] # Idle
    /\ call[p].op = "decision"
    /\ call[p].pc = "notify"
    /\ \E smtp_ok \in BOOLEAN :
         call' = [call EXCEPT ![p] =
            Finish([call[p] EXCEPT !.mails = Append(@, DecisionMail(call[p], smtp_ok))],
                   DecisionPage)]
    /\ UNCHANGED <<worksheet, rows>>

(***************************************************************************)
(* reset_sheet                                                             *)
(***************************************************************************)
ResetSheet(p) ==
    /\ call[p] = Idle
    /\ call' = [call EXCEPT ![p] =
          [op |-> "reset", pc |-> "open", resp |-> NoResponse,
           pre |-> rows, mails |-> <<>>, raised |-> FALSE]]
    /\ UNCHANGED <<worksheet, rows>>

\* sheet.clear() (line 469).
ResetClear(p) ==
    /\ call[p] # Idle
    /\ call[p].op = "reset"
    /\ call[p].pc = "clear"
    /\ \/ /\ rows' = <<>>
          /\ call' = [call EXCEPT ![p].pc = "header"]
       \/ /\ call' = [call EXCEPT ![p] = Raise(call[p])]
          /\ UNCHANGED rows
    /\ UNCHANGED worksheet

\* sheet.append_row(header) and the answer (lines 471-486).
ResetHeader(p) ==
    /\ call[p] # Idle
    /\ call[p].op = "reset"
    /\ call[p].pc = "header"
    /\ \/ /\ rows' = append_row(rows, header)
          /\ call' = [call EXCEPT ![p] =
                Finish(call[p], [code |-> 200, body |-> "ok=True"])]
       \/ /\ call' = [call EXCEPT ![p] = Raise(call[p])]
          /\ UNCHANGED rows
    /\ UNCHANGED worksheet

(***************************************************************************)
(* Specification                                                           *)
(***************************************************************************)
\* The response has gone out; the thread is free for the next request.
Return(p) ==
    /\ call[p] # Idle
    /\ call[p].pc = "done"
    /\ call' = [call EXCEPT ![p] = Idle]
    /\ UNCHANGED <<worksheet, rows>>

\* The steps of a call in progress.
Step(p) ==
    \/ GetRequestsSheet(p)
    \/ SubmitAppend(p)
    \/ SubmitNotifyApprover(p)
    \/ SubmitNotifyEmployee(p)
    \/ DecisionScan(p)
    \/ DecisionWrite(p)
    \/ DecisionNotify(p)
    \/ ResetClear(p)
    \/ ResetHeader(p)
    \/ Return(p)

\* One request at a time, each run to completion (spec section 5): thread 1
\* takes every call.
Next ==
    \/ \E form \in Forms, staff_ok \in BOOLEAN : Submit(1, form, staff_ok)
    \/ \E args \in Args : Decision(1, args)
    \/ ResetSheet(1)
    \/ Step(1)

Spec == Init /\ [][Next]_vars

(***************************************************************************)
(* Two request threads                                                     *)
(***************************************************************************)
\* One half-day request.
ConcForms == { Form("Alice", <<D_Sat, D_Sat>>, "half", "Vacation") }

\* request.args of the two links that submit writes in the approver e-mail
\* of that request (lines 270-289): the employee's e-mail and name, the
\* dates and the duration as submitted, and the reason as submit stripped
\* it.
ConcArgs ==
    { [Arg(st, Text("alice@walton.fr"), <<D_Sat, D_Sat>>, "half")
          EXCEPT !.reason = Text("flu")] :
        st \in {"approved", "rejected"} }

\* The steps of a submit or decision call in progress.
ConcStep(p) ==
    \/ GetRequestsSheet(p)
    \/ SubmitAppend(p)
    \/ SubmitNotifyApprover(p)
    \/ SubmitNotifyEmployee(p)
    \/ DecisionScan(p)
    \/ DecisionWrite(p)
    \/ DecisionNotify(p)
    \/ Return(p)

\* One request is submitted, and decision calls for it run on both threads,
\* their steps interleaved: no lock is held between get_all_values and
\* update_cell (spec section 5).
NextConc ==
    \/ /\ NumRequests(rows) = 0
       /\ \E form \in ConcForms : Submit(1, form, TRUE)
    \/ \E p \in Procs :
          \/ \E args \in ConcArgs : Decision(p, args)
          \/ ConcStep(p)

SpecConc == Init /\ [][NextConc]_vars


(***************************************************************************)
(* business_days on its own: every (start, end) of a span of days          *)
(***************************************************************************)
\* The number of days after FirstDay from which start and end are drawn.
DaySpan == 13

\* Monday 2024-02-26; the span holds the leap day and two weekends.
FirstDay == Date(2024, 2, 26)

\* The spans of days that start and end are drawn from, both from the same
\* one: the days from FirstDay on, and the last days of date's range.
DaySpans ==
    { FirstDay .. FirstDay + DaySpan, date_max - DaySpan .. date_max }

\* A call business_days(start, end), about to run.
InitDays ==
    /\ worksheet = FALSE
    /\ rows = <<>>
    /\ \E span \in DaySpans : \E start \in span, end \in span :
         call = [p \in Procs |->
                    IF p = 1
                    THEN [op |-> "business_days", pc |-> "call",
                          start |-> start, end |-> end]
                    ELSE Idle]

\* Lines 126-135: the call runs and returns.
BusinessDaysCall(p) ==
    /\ call[p] # Idle
    /\ call[p].op = "business_days"
    /\ call[p].pc = "call"
    /\ call' = [call EXCEPT ![p] =
                   [op |-> "business_days", pc |-> "done",
                    start |-> call[p].start, end |-> call[p].end,
                    result |-> business_days(call[p].start, call[p].end)]]
    /\ UNCHANGED <<worksheet, rows>>

NextDays == BusinessDaysCall(1)

SpecDays == InitDays /\ [][NextDays]_vars

(***************************************************************************)
(* Properties                                                              *)
(***************************************************************************)
\* The request rows of a sheet, in order: the log without its title rows.
Requests(sheet_rows) == SelectSeq(sheet_rows, IsRequestRow)

\* Thread p runs a call of handler op.
Running(p, op) == call[p] # Idle /\ call[p].op = op

\* Thread p has finished a call of handler op and not yet returned.
Finished(p, op) == Running(p, op) /\ call[p].pc = "done"

\* The request row has the key (email, sd, ed) and is Pending.
PendingFor(row, email, sd, ed) ==
    /\ IsRequestRow(row)
    /\ row.Status = "Pending"
    /\ row.Email = email /\ row.Start = sd /\ row.End = ed

\* The rows of a sheet that are Pending for the key of a decision call.
PendingMatches(sheet_rows, args) ==
    {i \in DOMAIN sheet_rows :
        PendingFor(sheet_rows[i], args.email, args.sd, args.ed)}

\* C1: a submit that returns the confirmation page has added exactly one
\* request row, as the last row, Pending, with the submitted name, start,
\* end, duration, type and (trimmed) reason, the employee's e-mail and
\* approver from the staff list, and Days =
\* adjust_half_day(business_days(start, end), duration_type); the request
\* rows that were there when the call began are unchanged.
C1_SubmitAddsOnePending ==
    \A p \in Procs :
        (Finished(p, "submit") /\ call[p].resp = SubmittedPage) =>
            LET c == call[p]
                f == c.form
                new == rows[Len(rows)]
            IN  /\ Len(rows) >= 1
                /\ IsRequestRow(new)
                /\ Requests(rows) = Append(Requests(c.pre), new)
                /\ new.Status = "Pending"
                /\ new.Name = f.employee_name
                /\ new.Start = f.start_date
                /\ new.End = f.end_date
                /\ new.Duration = f.duration_type
                /\ new.Type = f.type_of_leave
                /\ new.Reason = strip(f.reason)
                /\ \E m \in {StaffRecords[i] : i \in DOMAIN StaffRecords} :
                        /\ m.Name = f.employee_name
                        /\ new.Email = m.Email
                        /\ new.Approver = m.Approver
                /\ new.Days = adjust_half_day(
                                 business_days(strptime(f.start_date),
                                               strptime(f.end_date)),
                                 f.duration_type)

\* A half-day request has been confirmed and logged after an older request.
C1_Witness ==
    \E p \in Procs :
        /\ Finished(p, "submit")
        /\ call[p].resp = SubmittedPage
        /\ call[p].form.duration_type = "half"
        /\ Requests(call[p].pre) # <<>>
        /\ rows[Len(rows)].Days = HalfDay

\* C2: when exactly one request row is Pending for the (email, sd, ed) of a
\* decision call with status approved or rejected, and no sheet operation
\* of the call raises, the call sets that row's status to Approved or
\* Rejected and changes and adds nothing else.
C2_DecideUpdatesUniquePending ==
    \A p \in Procs :
        (/\ Finished(p, "decision")
         /\ call[p].args.status \in {"approved", "rejected"}
         /\ ~call[p].raised
         /\ Cardinality(PendingMatches(call[p].pre, call[p].args)) = 1) =>
            LET c == call[p]
                i == CHOOSE k \in PendingMatches(c.pre, c.args) : TRUE
            IN  rows = [c.pre EXCEPT ![i].Status =
                            IF c.args.status = "approved" THEN "Approved"
                            ELSE "Rejected"]

\* C3: status is one-way.  In every step of a submit or decision call, each
\* request row stays where it is, and if its status changes, it changes
\* from Pending to Approved or Rejected: an Approved or Rejected row keeps
\* its status.
C3_StatusOneWay ==
    [][ (\A p \in Procs : ~Running(p, "reset")) =>
            \A i \in DOMAIN rows :
                IsRequestRow(rows[i]) =>
                    /\ i \in DOMAIN rows'
                    /\ IsRequestRow(rows'[i])
                    /\ rows'[i].Status # rows[i].Status =>
                          /\ rows[i].Status = "Pending"
                          /\ rows'[i].Status \in {"Approved", "Rejected"} ]_vars

\* A decided request has been decided on again, with the other status: the
\* second call has written its row.
C3_Witness ==
    \E p \in Procs :
        /\ Finished(p, "decision")
        /\ call[p].written
        /\ call[p].args.status = "rejected"
        /\ \E i \in DOMAIN call[p].pre :
              /\ IsRequestRow(call[p].pre[i])
              /\ call[p].pre[i].Status = "Approved"
              /\ call[p].pre[i].Approver # "Decision"
              /\ call[p].pre[i].Email = call[p].args.email
              /\ call[p].pre[i].Start = call[p].args.sd
              /\ call[p].pre[i].End = call[p].args.ed

\* C4: a decision call with status approved or rejected for which no request
\* row is Pending with its (email, sd, ed), and whose sheet operations do
\* not raise, appends exactly one request row, with the decision status and
\* the call's name, email, sd and ed, leaves the other request rows as they
\* were, and returns the decision-result page.
C4_DecideFallbackAppend ==
    \A p \in Procs :
        (/\ Finished(p, "decision")
         /\ call[p].args.status \in {"approved", "rejected"}
         /\ ~call[p].raised
         /\ PendingMatches(call[p].pre, call[p].args) = {}) =>
            LET c == call[p]
                new == rows[Len(rows)]
            IN  /\ Len(rows) >= 1
                /\ IsRequestRow(new)
                /\ Requests(rows) = Append(Requests(c.pre), new)
                /\ Len(rows) \in {Len(c.pre) + 1, Len(c.pre) + 2}
                /\ new.Status = (IF c.args.status = "approved" THEN "Approved"
                                 ELSE "Rejected")
                /\ new.Name = c.args.name
                /\ new.Email = c.args.email
                /\ new.Start = c.args.sd
                /\ new.End = c.args.ed
                /\ c.resp = DecisionPage

\* A decision for a key that is in the log, but already decided, has been
\* appended.
C4_Witness ==
    \E p \in Procs :
        /\ Finished(p, "decision")
        /\ ~call[p].raised
        /\ PendingMatches(call[p].pre, call[p].args) = {}
        /\ \E i \in DOMAIN call[p].pre :
              /\ IsRequestRow(call[p].pre[i])
              /\ call[p].pre[i].Email = call[p].args.email
              /\ call[p].pre[i].Start = call[p].args.sd
              /\ call[p].pre[i].End = call[p].args.ed
        /\ rows[Len(rows)].Approver = "Decision"
        /\ Len(rows) = Len(call[p].pre) + 1

\* C5: when several request rows are Pending for the (email, sd, ed) of a
\* decision call (status approved or rejected, no sheet operation raising),
\* the call sets the status of the last of them and changes no other row:
\* the older duplicates stay Pending, and no row of another key or status
\* is touched.
C5_DecideUpdatesLatestDuplicate ==
    \A p \in Procs :
        (/\ Finished(p, "decision")
         /\ call[p].args.status \in {"approved", "rejected"}
         /\ ~call[p].raised
         /\ Cardinality(PendingMatches(call[p].pre, call[p].args)) >= 2) =>
            LET c == call[p]
                m == PendingMatches(c.pre, c.args)
                last == CHOOSE i \in m : \A k \in m : k <= i
            IN  /\ rows = [c.pre EXCEPT ![last].Status =
                              IF c.args.status = "approved" THEN "Approved"
                              ELSE "Rejected"]
                /\ \A k \in m \ {last} : rows[k].Status = "Pending"

\* A decision has been written over two Pending duplicates.
C5_Witness ==
    \E p \in Procs :
        /\ Finished(p, "decision")
        /\ call[p].written
        /\ Cardinality(PendingMatches(call[p].pre, call[p].args)) >= 2
        /\ Cardinality(PendingMatches(rows, call[p].args)) >= 1

\* The defects of a form that C6 names.
MissingField(f) ==
    f.employee_name = "" \/ f.start_date = <<>> \/ f.end_date = <<>>
        \/ f.type_of_leave = ""

MalformedDate(f) ==
    strptime(f.start_date) = ValueError \/ strptime(f.end_date) = ValueError

EndBeforeStart(f) ==
    ~MalformedDate(f) /\ strptime(f.end_date) < strptime(f.start_date)

HalfDayOverSeveralDates(f) ==
    /\ ~MalformedDate(f)
    /\ f.duration_type = "half"
    /\ strptime(f.start_date) # strptime(f.end_date)

\* C6: a refused call has no effect.  A submit whose form lacks a required
\* field, has a date that does not parse, has end before start, or asks a
\* half day over two different dates, and a decision whose status is
\* neither approved nor rejected, end at once: the sheet is as it was when
\* the call began, no e-mail is attempted, and the answer is 400.
C6_RefusedCallsChangeNothing ==
    \A p \in Procs :
        /\ (/\ Running(p, "submit")
            /\ \/ MissingField(call[p].form)
               \/ MalformedDate(call[p].form)
               \/ EndBeforeStart(call[p].form)
               \/ HalfDayOverSeveralDates(call[p].form)) =>
                /\ call[p].pc = "done"
                /\ rows = call[p].pre
                /\ call[p].mails = <<>>
                /\ call[p].resp.code = 400
        /\ (/\ Running(p, "decision")
            /\ call[p].args.status \notin {"approved", "rejected"}) =>
                /\ call[p].pc = "done"
                /\ rows = call[p].pre
                /\ call[p].mails = <<>>
                /\ call[p].resp.code = 400

\* C7: when the e-mail to the approver fails in submit, the call answers
\* with a delivery error, HTTP 500, and not with the confirmation page.
C7_ApproverFailureSurfaced ==
    \A p \in Procs :
        (/\ Finished(p, "submit")
         /\ call[p].mails # <<>>
         /\ ~call[p].mails[1].sent) =>
            /\ call[p].resp.code = 500
            /\ call[p].resp # SubmittedPage

\* C8: a sheet operation that raises never aborts the response: the submit
\* (past validation) or decision call in which it raised still attempts
\* its e-mails and returns its success page.
C8_StorageFailureNeverAborts ==
    \A p \in Procs :
        /\ (Finished(p, "submit") /\ call[p].raised) =>
                /\ call[p].mails # <<>>
                /\ call[p].resp = SubmittedPage
        /\ (Finished(p, "decision") /\ call[p].raised) =>
                /\ call[p].mails # <<>>
                /\ call[p].resp = DecisionPage

\* C9: a decision call with status approved or rejected attempts exactly
\* one e-mail, to the call's email with CC to ALWAYS_CC, as its last step,
\* after the update or append (or the sheet error that replaced it); whether
\* or not the e-mail goes out, the call returns the decision-result page
\* and the row it wrote stays written.
C9_DecideNotifiesOnceAfterWrite ==
    \A p \in Procs :
        (Running(p, "decision")
         /\ call[p].args.status \in {"approved", "rejected"}) =>
            LET c == call[p]
                decided == IF c.args.status = "approved" THEN "Approved"
                           ELSE "Rejected"
            IN  /\ c.pc # "done" => c.mails = <<>>
                /\ c.pc = "done" =>
                      /\ Len(c.mails) = 1
                      /\ c.mails[1].to = <<c.args.email>>
                      /\ c.mails[1].cc = <<ALWAYS_CC>>
                      /\ c.written \/ c.raised
                      /\ c.resp = DecisionPage
                      /\ (c.written /\ c.pending_row # 0) =>
                            /\ c.pre[c.pending_row].Status = "Pending"
                            /\ rows[c.pending_row].Status = decided
                      /\ (c.written /\ c.pending_row = 0) =>
                            /\ Len(Requests(rows)) = Len(Requests(c.pre)) + 1
                            /\ rows[Len(rows)].Approver = "Decision"
                            /\ rows[Len(rows)].Status = decided

\* A decision has updated a Pending row and its e-mail has failed.
C9_Witness ==
    \E p \in Procs :
        /\ Finished(p, "decision")
        /\ call[p].written
        /\ call[p].pending_row # 0
        /\ call[p].mails # <<>>
        /\ ~call[p].mails[1].sent
        /\ call[p].resp = DecisionPage

\* C10: in a submit call, once the e-mail to the approver has been
\* attempted, the Pending row of that submission is in the sheet: it is the
\* last row, added to the request rows the call began with.
C10_AppendBeforeApproverMail ==
    \A p \in Procs :
        (Running(p, "submit") /\ call[p].mails # <<>>) =>
            LET c == call[p]
                new == rows[Len(rows)]
            IN  /\ Len(Requests(rows)) = Len(Requests(c.pre)) + 1
                /\ IsRequestRow(new)
                /\ new.Status = "Pending"
                /\ new.Name = c.form.employee_name
                /\ new.Email = c.employee_email
                /\ new.Start = c.form.start_date
                /\ new.End = c.form.end_date
                /\ new.Duration = c.form.duration_type

\* The approver e-mail of a submission has just been attempted, and failed.
C10_Witness ==
    \E p \in Procs :
        /\ Running(p, "submit")
        /\ Len(call[p].mails) = 1
        /\ ~call[p].mails[1].sent
        /\ call[p].mails[1].to = <<EMAIL_NHAN>>


\* The approver names that the code maps to a mailbox.
KnownApprovers == {"Mark", "Nhàn", "Nhan", "Anh"}

\* The approver that the staff list gives for the employee of a form.
ApproverOf(f) == staff_get(load_staff_list, "Approver", f.employee_name)

\* C11: a submit whose approver is not one of the known approvers is refused
\* with HTTP 400 (the staff list having been read and no sheet operation
\* raising): no request row is logged and no e-mail is attempted.
C11_UnknownApproverRefused ==
    \A p \in Procs :
        (/\ Running(p, "submit")
         /\ call[p].staff_ok
         /\ ~call[p].raised
         /\ ~MissingField(call[p].form)
         /\ ApproverOf(call[p].form) \notin KnownApprovers) =>
            /\ call[p].pc = "done" => call[p].resp.code = 400
            /\ Requests(rows) = Requests(call[p].pre)
            /\ call[p].mails = <<>>

\* C12: a submit that returns the confirmation page with no e-mail failing
\* has made exactly two attempts: one to the approver's mailbox with CC to
\* ALWAYS_CC, then one receipt to the employee's e-mail.
C12_SubmitNotifiesApproverWithCc ==
    \A p \in Procs :
        (/\ Finished(p, "submit")
         /\ call[p].resp = SubmittedPage
         /\ \A i \in DOMAIN call[p].mails : call[p].mails[i].sent) =>
            /\ Len(call[p].mails) = 2
            /\ call[p].mails[1].to = <<approver_email_map(call[p].approver)>>
            /\ call[p].mails[1].cc = <<ALWAYS_CC>>
            /\ call[p].mails[2].to = <<call[p].employee_email>>

\* C13: every request row of the sheet has a Days value that is not
\* negative, whether submit or decision wrote it.
C13_DaysNeverNegative ==
    \A i \in DOMAIN rows : IsRequestRow(rows[i]) => rows[i].Days >= 0

\* C14: the log is append-only apart from Status.  In every step taken
\* while no reset call runs, the number of request rows does not decrease and
\* each request row stays at its place with every field other than Status
\* unchanged; a step that removes a request row is a step of a reset call;
\* and a reset call that finishes with success leaves the header row alone
\* in the sheet.
C14_AppendOnlyExceptStatus ==
    [][ /\ (\A p \in Procs : ~Running(p, "reset")) =>
              /\ Len(Requests(rows')) >= Len(Requests(rows))
              /\ \A i \in DOMAIN rows :
                    IsRequestRow(rows[i]) =>
                        /\ i \in DOMAIN rows'
                        /\ IsRequestRow(rows'[i])
                        /\ [rows'[i] EXCEPT !.Status = rows[i].Status] = rows[i]
        /\ Len(Requests(rows')) < Len(Requests(rows)) =>
              \E p \in Procs : Running(p, "reset") /\ call[p].pc = "clear"
        /\ \A p \in Procs :
              (/\ call'[p] # Idle
               /\ call'[p].op = "reset"
               /\ call'[p].pc = "done"
               /\ call'[p].resp.code = 200) => rows' = <<header>> ]_vars

\* A reset has succeeded on a sheet that held a request that had been
\* submitted and then decided: the sheet now holds the header row only.
C14_Witness ==
    \E p \in Procs :
        /\ Finished(p, "reset")
        /\ call[p].resp.code = 200
        /\ \E i \in DOMAIN call[p].pre :
              /\ IsRequestRow(call[p].pre[i])
              /\ call[p].pre[i].Approver # "Decision"
              /\ call[p].pre[i].Status = "Approved"
        /\ rows = <<header>>

\* C18: a decision call (status approved or rejected, no sheet operation
\* raising) for a key whose submitted request has already been decided, and
\* for which no row is Pending, returns the decision-result page, leaves
\* every row as it was, the decided one included, and appends exactly one
\* row, with approver "Decision", the call's key and the call's status.
C18_RepeatedDecideAppends ==
    \A p \in Procs :
        (/\ Finished(p, "decision")
         /\ call[p].args.status \in {"approved", "rejected"}
         /\ ~call[p].raised
         /\ PendingMatches(call[p].pre, call[p].args) = {}
         /\ \E i \in DOMAIN call[p].pre :
               /\ IsRequestRow(call[p].pre[i])
               /\ call[p].pre[i].Approver # "Decision"
               /\ call[p].pre[i].Status \in {"Approved", "Rejected"}
               /\ call[p].pre[i].Email = call[p].args.email
               /\ call[p].pre[i].Start = call[p].args.sd
               /\ call[p].pre[i].End = call[p].args.ed) =>
            LET c == call[p]
                new == rows[Len(rows)]
            IN  /\ c.resp = DecisionPage
                /\ Len(rows) = Len(c.pre) + 1
                /\ rows = Append(c.pre, new)
                /\ new.Approver = "Decision"
                /\ new.Status = (IF c.args.status = "approved" THEN "Approved"
                                 ELSE "Rejected")
                /\ new.Email = c.args.email
                /\ new.Start = c.args.sd
                /\ new.End = c.args.ed

\* A request approved by a first click has been clicked on again with
\* "rejected": the sheet holds the Approved row and a Rejected "Decision"
\* row after it.
C18_Witness ==
    \E p \in Procs :
        /\ Finished(p, "decision")
        /\ ~call[p].raised
        /\ call[p].args.status = "rejected"
        /\ rows[Len(rows)].Approver = "Decision"
        /\ rows[Len(rows)].Status = "Rejected"
        /\ \E i \in DOMAIN call[p].pre :
              /\ IsRequestRow(call[p].pre[i])
              /\ call[p].pre[i].Approver # "Decision"
              /\ call[p].pre[i].Status = "Approved"
              /\ rows[i].Status = "Approved"
              /\ call[p].pre[i].Email = call[p].args.email
              /\ call[p].pre[i].Start = call[p].args.sd
              /\ call[p].pre[i].End = call[p].args.ed

\* C20: in a submit call the receipt to the employee is attempted only after
\* the approver e-mail has been sent: the first attempt is the approver
\* e-mail, a second attempt exists only if the first was sent, and when the
\* first raises the call ends with that single attempt and the Pending row
\* it appended is still the last row of the sheet.
C20_ReceiptOnlyAfterApproverMail ==
    \A p \in Procs :
        (Running(p, "submit") /\ call[p].mails # <<>>) =>
            LET c == call[p]
            IN  /\ c.mails[1].subject = "Walton Time Off - New request"
                /\ Len(c.mails) <= 2
                /\ Len(c.mails) = 2 =>
                      /\ c.mails[1].sent
                      /\ c.mails[2].subject = "Walton Time Off - Request received"
                      /\ c.mails[2].to = <<c.employee_email>>
                /\ ~c.mails[1].sent =>
                      /\ Len(c.mails) = 1
                      /\ c.pc = "done"
                      /\ Len(rows) >= 1
                      /\ \E timestamp \in Instants :
                            rows[Len(rows)] = SubmitRow(c, timestamp)
                      /\ Requests(rows) = Append(Requests(c.pre), rows[Len(rows)])

\* The approver e-mail of a submit has raised: the call is over with one
\* attempt and its Pending row is in the sheet.
C20_Witness ==
    \E p \in Procs :
        /\ Finished(p, "submit")
        /\ Len(call[p].mails) = 1
        /\ ~call[p].mails[1].sent
        /\ Len(rows) >= 1
        /\ IsRequestRow(rows[Len(rows)])
        /\ rows[Len(rows)].Status = "Pending"
        /\ rows[Len(rows)].Name = call[p].form.employee_name

\* C19: the first row of a sheet that is not empty is the header row, never
\* a request row; and a decision call (status approved or rejected, no sheet
\* operation raising) that carries the email, start and end of the Pending
\* row that a submit has just appended finds that row and sets its status.
C19_FirstRowIsHeader ==
    /\ rows # <<>> => rows[1] = header
    /\ \A p \in Procs :
          (/\ Finished(p, "decision")
           /\ call[p].args.status \in {"approved", "rejected"}
           /\ ~call[p].raised
           /\ call[p].pre # <<>>
           /\ PendingFor(call[p].pre[Len(call[p].pre)], call[p].args.email,
                         call[p].args.sd, call[p].args.ed)) =>
              /\ call[p].pending_row = Len(call[p].pre)
              /\ Len(rows) = Len(call[p].pre)
              /\ rows[Len(rows)].Status \in {"Approved", "Rejected"}

\* The largest raw count given to adjust_half_day in C17.
MaxRawCount == 5

\* C17: adjust_half_day(days, "half") is 0.5 for every raw count, 0 and the
\* sentinel -1 included, and adjust_half_day(days, t) is days for every other
\* duration type; and every Pending row of the sheet with duration "half"
\* has Days = 0.5 and start and end texts that denote the same date.
C17_HalfDayIsHalf ==
    /\ \A n \in -1 .. MaxRawCount :
          /\ adjust_half_day(Float(n), "half") = HalfDay
          /\ \A t \in {"full", "", "Half", "HALF"} :
                adjust_half_day(Float(n), t) = Float(n)
    /\ \A i \in DOMAIN rows :
          (/\ IsRequestRow(rows[i])
           /\ rows[i].Status = "Pending"
           /\ rows[i].Duration = "half") =>
              /\ rows[i].Days = HalfDay
              /\ strptime(rows[i].Start) # ValueError
              /\ strptime(rows[i].Start) = strptime(rows[i].End)

\* Two half-day requests are Pending in the sheet: one for a Saturday, whose
\* raw count is 0, and one whose start and end are the same Monday written
\* in two ways.
C17_Witness ==
    /\ \E i \in DOMAIN rows :
          /\ IsRequestRow(rows[i])
          /\ rows[i].Status = "Pending"
          /\ rows[i].Duration = "half"
          /\ rows[i].Days = HalfDay
          /\ business_days(strptime(rows[i].Start), strptime(rows[i].End)) = Float(0)
    /\ \E i \in DOMAIN rows :
          /\ IsRequestRow(rows[i])
          /\ rows[i].Status = "Pending"
          /\ rows[i].Duration = "half"
          /\ rows[i].Start # rows[i].End

\* A day of the calendar that is a Monday, Tuesday, Wednesday, Thursday or
\* Friday, counted from Monday 2024-01-01.
IsMondayToFriday(d) == (d - Date(2024, 1, 1)) % 7 < 5

\* C16: business_days(start, end) is -1 when end < start and otherwise the
\* number of days of start..end that are Monday to Friday; so it is 1 for a
\* single Monday-to-Friday day, 0 for a single Saturday or Sunday, and 5 for
\* 7 days in a row.
C16_BusinessDaysCountsWeekdays ==
    \A p \in Procs :
        Finished(p, "business_days") =>
            LET start == call[p].start
                end == call[p].end
                result == call[p].result
            IN  /\ end < start => result = Float(-1)
                /\ end >= start =>
                      result = Float(Cardinality(
                                  {d \in start .. end : IsMondayToFriday(d)}))
                /\ end = start =>
                      result = (IF IsMondayToFriday(start) THEN Float(1)
                                ELSE Float(0))
                /\ end = start + 6 => result = Float(5)


\* Thread p takes the step of decision that calls update_cell on row i.
WritesStatus(p, i) ==
    /\ Running(p, "decision")
    /\ call[p].pc = "write"
    /\ call[p].pending_row = i
    /\ i # 0
    /\ call'[p] # Idle
    /\ call'[p].written

\* C15 as claimed: with decision calls interleaved, no status is written
\* twice: a status that changes was Pending, and every update_cell is on a
\* row whose status is still Pending.
C15_StatusWrittenOnce ==
    [][ \A i \in DOMAIN rows :
          IsRequestRow(rows[i]) =>
              /\ i \in DOMAIN rows'
              /\ IsRequestRow(rows'[i])
              /\ rows'[i].Status # rows[i].Status => rows[i].Status = "Pending"
              /\ \A p \in Procs :
                    WritesStatus(p, i) => rows[i].Status = "Pending" ]_vars

\* C15: with decision calls interleaved, a status changes only in the
\* update_cell step of a decision call, and each call writes once, on the
\* one row that its own get_all_values showed as Pending for its (email,
\* sd, ed), the status Approved or Rejected of its link; the row may have
\* been written by another call in between.
C15_EachCallWritesTheRowItRead ==
    [][ \A i \in DOMAIN rows :
          IsRequestRow(rows[i]) =>
              /\ i \in DOMAIN rows'
              /\ IsRequestRow(rows'[i])
              /\ rows'[i].Status # rows[i].Status =>
                    \E p \in Procs : WritesStatus(p, i)
              /\ \A p \in Procs :
                    WritesStatus(p, i) =>
                        /\ ~call[p].written
                        /\ i \in DOMAIN call[p].all_values
                        /\ PendingFor(call[p].all_values[i], call[p].args.email,
                                      call[p].args.sd, call[p].args.ed)
                        /\ rows'[i].Status = capitalize(call[p].args.status)
                        /\ rows'[i].Status \in {"Approved", "Rejected"}
                        /\ rows' = [rows EXCEPT ![i].Status = rows'[i].Status] ]_vars

\* Two decision calls, one approving and one rejecting, have both read the
\* same row as Pending and have both written it.
C15_Witness ==
    \E p, q \in Procs :
        /\ p # q
        /\ Running(p, "decision") /\ Running(q, "decision")
        /\ call[p].written /\ call[q].written
        /\ call[p].pending_row # 0
        /\ call[p].pending_row = call[q].pending_row
        /\ call[p].args.status = "approved"
        /\ call[q].args.status = "rejected"
        /\ rows[call[p].pending_row].Status = "Approved"

=============================================================================
